---- MODULE Spec2Model ----
(***************************************************************************)
(* Model of the CSV ingestion pipeline: JobManager (job table), the upload *)
(* and cancel routes, and CsvProcessor (count, parse, batch, per-row       *)
(* transform and upsert, progress snapshots, cooperative cancellation).    *)
(*                                                                         *)
(* Scheduling: Node runs one callback at a time.  An action of this model  *)
(* is the code that runs between two macrotask boundaries (a timer, a      *)
(* stream chunk, a database answer, an HTTP request); promise              *)
(* continuations (microtasks) run inside the action that settles them.     *)
(* Environment assumption: the failed-record file can always be appended.  *)
(*                                                                         *)
(* Spec orders the callbacks of one job and leaves the clock alone;        *)
(* TimedSpec adds the passing hours and the hourly cleanup scheduler;      *)
(* FairSpec adds the fairness under which a started job ends.              *)
(***************************************************************************)
EXTENDS Integers, Sequences, FiniteSets, TLC

\* ------------------------------------------------------------------ bounds
MaxRows == 3          \* data rows in an uploaded file
MaxBatchSize == 2     \* largest batchSize option tried
MaxCancels == 1       \* cancellations accepted per run
MaxRunHours == 3      \* hours a job is followed for while it has no completion stamp
MaxTransactions == 3  \* upsert transactions begun by the racing jobs
maxRetries == 2       \* attempts of generateApplicantNo (20 by default)
maxPollRetries == 2   \* polls of the progress stream that miss the job (10)

\* ------------------------------------------------------- times, in hours
JOB_CLEANUP_INTERVAL == 24   \* retention after the completion stamp
StaleCeiling == 2            \* age past which an unfinished job counts as stuck
SweepInterval == 1           \* period of the cleanup scheduler
NotStamped == -1             \* job.completedAt undefined

\* ------------------------------------------------------------- input data
JobId == "j1"
UnknownId == "zz"

\* 'Matric Number' cell: an identifier, possibly with surrounding blanks.
Matric(id, padded) == [id |-> id, pad |-> padded]

\* String.prototype.trim on a 'Matric Number' cell
Trim(m) == [m EXCEPT !.pad = FALSE]

MatricIds == {"A1", "A2"}

\* The rows a file is built from: a valid row, a valid row with the same
\* identifier after trimming, a row with a bad gender and birth date, and a
\* valid row that shares the identifier of the bad one.
FirstRow ==
  [matric |-> Matric("A1", FALSE), lastName |-> "Doe", gender |-> "Male",
   dob |-> "1995-05-15", email |-> "doe@x.org"]

DupRow ==
  [matric |-> Matric("A1", TRUE), lastName |-> "Dup", gender |-> "male",
   dob |-> "1995-05-15", email |-> ""]

BadRow ==
  [matric |-> Matric("A2", FALSE), lastName |-> "X", gender |-> "Unknown",
   dob |-> "bad-date", email |-> ""]

OtherRow ==
  [matric |-> Matric("A2", FALSE), lastName |-> "Y", gender |-> "F",
   dob |-> "15/05/1995", email |-> ""]

RowCatalog == {FirstRow, DupRow, BadRow, OtherRow}

\* rows with a blank required cell: a 'Matric Number' of blanks only, and a
\* row of identifier A2 with an empty 'Last Name'
BlankIdRow ==
  [matric |-> Matric("", TRUE), lastName |-> "Z", gender |-> "Male",
   dob |-> "1995-05-15", email |-> ""]

BlankNameRow ==
  [matric |-> Matric("A2", FALSE), lastName |-> "", gender |-> "F",
   dob |-> "15/05/1995", email |-> ""]

RequiredFields ==
  {"Matric Number", "Last Name", "First Name", "Gender", "DoB",
   "Year Of Entry", "Department"}

\* Header lines tried: every required field present, and 'DoB' missing.
HeaderChoices == { RequiredFields, RequiredFields \ {"DoB"} }

\* a header line that spells the birth-date column 'DOB'
HeaderDOB == (RequiredFields \ {"DoB"}) \cup {"DOB"}

\* String.prototype.toLowerCase on the strings in use
ToLower(s) ==
  CASE s = "Matric Number" -> "matric number"
    [] s = "Last Name" -> "last name"
    [] s = "First Name" -> "first name"
    [] s = "Gender" -> "gender"
    [] s = "DoB" -> "dob"
    [] s = "DOB" -> "dob"
    [] s = "Year Of Entry" -> "year of entry"
    [] s = "Department" -> "department"
    [] s = "Male" -> "male"
    [] s = "F" -> "f"
    [] s = "Unknown" -> "unknown"
    [] s = "Doe" -> "doe"
    [] s = "Dup" -> "dup"
    [] s = "X" -> "x"
    [] s = "Y" -> "y"
    [] s = "Z" -> "z"
    [] OTHER -> s

SeqsUpTo(S, n) == UNION { [1..k -> S] : k \in 0..n }

\* The uploaded files tried.  The step callback reads only the keys of the
\* first parsed row, never its values, so the files differ in the header
\* line and in the rows after the first.
Files ==
  [headers : HeaderChoices,
   rows : { s \in SeqsUpTo(RowCatalog, MaxRows) :
              Len(s) > 0 => s[1] = FirstRow }]

Options == [dryRun : BOOLEAN, batchSize : 1..MaxBatchSize]

\* ------------------------------------------------------------------ store
\* present: a dlc_student row exists; mapped: its dlc_student_id row exists
Absent == [present |-> FALSE, mapped |-> FALSE]

FullA1 ==
  [present |-> TRUE, mapped |-> TRUE, emailAddress |-> "old@x.org", studyMode |-> "FULL_PROGRAMME",
   password |-> "hash", stud_email |-> "old@x.org"]

EmptyStore == [m \in MatricIds |-> Absent]

\* dlc_student joined with dlc_student_id, keyed by matric_no
StoreInits ==
  { EmptyStore,
    [m \in MatricIds |-> IF m = "A1" THEN FullA1 ELSE Absent] }

\* ------------------------------------------------- tables and connections
\* two jobs, each holding one pooled connection at a time
Connections == {1, 2}

ApplicantNos == {"N1", "N2"}

\* what upsertRecord is given: the generated applicantNo and the matric_no
Records == [applicantNo : ApplicantNos, matric_no : MatricIds]

NoRecord == [applicantNo |-> "", matric_no |-> ""]

IdleConnection ==
  [at |-> "idle", record |-> NoRecord, serialID |-> 0, error |-> ""]

\* ------------------------------------------------------------------ state
VARIABLES
  pc,          \* position of the job's asynchronous task
  file,        \* the uploaded file
  options,     \* ProcessingOptions of the job
  isCancelled, \* CsvProcessor.isCancelled
  progress,    \* CsvProcessor.progress
  parse,       \* locals of the parse pass: rowNumber, headerProcessed, next row
  batch,       \* rows accumulated by the step callback
  loop,        \* locals of the batch loop: i, currentBatch, batchNumber
  rowLoop,     \* locals of processBatch: position, batch, identifiers seen
  errors,      \* CsvProcessor.errors
  failedCsv,   \* lines of the failed-record artifact (<<>> = no file)
  promise,     \* state of the promise returned by processFile
  jobs,        \* JobManager.jobs
  timers,      \* pending deferred cleanups
  emitted,     \* every snapshot handed to onProgress, in order
  store,       \* the relational store
  outcome,     \* per data row: what processBatch did with it
  inflight,    \* row number inside processRecord/upsertRecord, 0 if none
  inBatch,     \* per data row: number of the batch it was processed in, 0 if none
  cancelCalls, \* calls of cancelJob that returned true so far
  cancelLog,   \* what cancel() saw when it was first invoked
  now,         \* the wall clock, in hours
  dlc_student,    \* rows of table dlc_student, each with the transaction
                  \* holding it uncommitted (0 = committed)
  dlc_student_id, \* rows of table dlc_student_id, likewise
  conn,           \* per pooled connection: the statement its upsert is at
  insertId,       \* AUTO_INCREMENT counter of dlc_student.serialID
  begun,          \* transactions begun so far
  lookup,         \* where processRecord is in its chain of awaits
  observer        \* the progress stream of one client and its polling timer

vars == <<pc, file, options, isCancelled, progress, parse, batch, loop, rowLoop,
          errors, failedCsv, promise, jobs, timers, emitted, store,
          outcome, inflight, inBatch, cancelCalls, cancelLog, now,
          dlc_student, dlc_student_id, conn, insertId, begun, lookup,
          observer>>

\* the state of one job
jobVars == <<pc, file, options, isCancelled, progress, parse, batch, loop,
             rowLoop, errors, failedCsv, promise, jobs, timers, emitted,
             store, outcome, inflight, inBatch, cancelCalls, cancelLog, now,
             lookup, observer>>

\* the variables the Processor's callbacks assign
processorVars ==
  <<pc, isCancelled, progress, parse, batch, loop, rowLoop, errors, failedCsv,
    promise, jobs, timers, emitted, store, outcome, inflight, inBatch, now>>

\* the tables and connections shared by the jobs
database == <<dlc_student, dlc_student_id, conn, insertId, begun>>

\* ---------------------------------------------------------------- helpers
Pct(n, d) == [num |-> n, den |-> d]

\* a <= b for the percentages (exact rationals, positive denominators)
PctLeq(a, b) == a.num * b.den <= b.num * a.den

\* JobProgress as seeded by the CsvProcessor constructor
InitialProgress ==
  [progress |-> Pct(0, 1), totalRecords |-> 0, processedRecords |-> 0,
   insertedRecords |-> 0, failedRecordsCount |-> 0, currentRow |-> 0,
   message |-> "created", isComplete |-> FALSE]

NoJobs == [j \in {} |-> 0]

\* The part of the state the synchronous code segments read and write.
World ==
  [pc |-> pc, isCancelled |-> isCancelled, progress |-> progress,
   parse |-> parse, batch |-> batch, loop |-> loop, rowLoop |-> rowLoop,
   errors |-> errors, failedCsv |-> failedCsv, promise |-> promise,
   jobs |-> jobs, timers |-> timers, emitted |-> emitted, store |-> store,
   outcome |-> outcome, inflight |-> inflight, inBatch |-> inBatch,
   now |-> now]

Becomes(w) ==
  /\ pc' = w.pc
  /\ isCancelled' = w.isCancelled
  /\ progress' = w.progress
  /\ parse' = w.parse
  /\ batch' = w.batch
  /\ loop' = w.loop
  /\ rowLoop' = w.rowLoop
  /\ errors' = w.errors
  /\ failedCsv' = w.failedCsv
  /\ promise' = w.promise
  /\ jobs' = w.jobs
  /\ timers' = w.timers
  /\ emitted' = w.emitted
  /\ store' = w.store
  /\ outcome' = w.outcome
  /\ inflight' = w.inflight
  /\ inBatch' = w.inBatch
  /\ now' = w.now

\* onProgress that stamps on every update with isComplete = true
onProgress_restamp(w, snap) ==
  IF JobId \in DOMAIN w.jobs
  THEN LET job == w.jobs[JobId]
           stamp == snap.isComplete
       IN [w EXCEPT
             !.jobs = [@ EXCEPT ![JobId] =
                         [progress |-> snap, createdAt |-> job.createdAt,
                          completedAt |-> IF stamp THEN w.now
                                          ELSE job.completedAt]],
             !.timers = IF stamp THEN @ + 1 ELSE @]
  ELSE w

\* JobManager.createJob: the onProgress callback bound to the job
onProgress(w, snap) ==
  IF JobId \in DOMAIN w.jobs
  THEN LET job == w.jobs[JobId]
           stamp == snap.isComplete /\ job.completedAt = NotStamped
       IN [w EXCEPT
             !.jobs = [@ EXCEPT ![JobId] =
                         [progress |-> snap, createdAt |-> job.createdAt,
                          completedAt |-> IF stamp THEN w.now
                                          ELSE job.completedAt]],
             !.timers = IF stamp THEN @ + 1 ELSE @]
  ELSE w

\* CsvProcessor.emitProgress: hand a copy of the progress to onProgress
emitProgress(w) ==
  onProgress([w EXCEPT !.emitted = Append(@, w.progress)], w.progress)

SetMessage(w, msg) == [w EXCEPT !.progress.message = msg]

\* ------------------------------------------------------ Record Transformer
normalizeGender(gender) ==
  LET normalized == ToLower(gender)
  IN IF normalized \in {"m", "male"} THEN "Male"
     ELSE IF normalized \in {"f", "female"} THEN "Female"
     ELSE ""

\* parseDate on the date spellings in use; "" stands for null
parseDate(dateStr) ==
  CASE dateStr = "" -> ""
    [] dateStr = "1995-05-15" -> "1995-05-15"     \* YYYY-MM-DD
    [] dateStr = "15/05/1995" -> "1995-05-15"     \* DD/MM/YYYY
    [] OTHER -> ""                                \* new Date(s) is invalid

isValidEmail(email) == email \in {"doe@x.org", "old@x.org"}

\* row['DoB'] of a parsed row: the cell under the header spelled exactly
\* 'DoB'; "" stands for undefined
DoBCell(row) == IF "DoB" \in file.headers THEN row.dob ELSE ""

\* processRecord up to its first await: "ok", or the Error thrown.  The
\* required fields are tested in the order of the requiredFields array.
Validate(row) ==
  IF row.matric.id = "" THEN "Missing required field: Matric Number"
  ELSE IF row.lastName = "" THEN "Missing required field: Last Name"
  ELSE IF row.gender = "" THEN "Missing required field: Gender"
  ELSE IF DoBCell(row) = "" THEN "Missing required field: DoB"
  ELSE IF normalizeGender(row.gender) = "" THEN "Invalid gender"
  ELSE IF parseDate(DoBCell(row)) = "" THEN "Invalid date of birth"
  ELSE IF row.email # "" /\ ~isValidEmail(row.email) THEN "Invalid email format"
  ELSE "ok"

\* bcrypt.hash
Hash(text) == <<"bcrypt", text>>

\* --------------------------------------------------------- Lookup Resolver
\* what executeQuery gives a lookup: rows, no row, or an exception
QueryOutcomes == {"rows", "empty", "error"}

Null == 0

\* the key of the row a query matched
MatchedId == 7

\* names given to a lookup: blank, or something to look for
Names == {"", "x"}

\* executeQuery: the rows, or the exception it rethrows
executeQuery(q) ==
  [threw |-> q = "error",
   rows |-> IF q = "rows" THEN <<MatchedId>> ELSE <<>>]

Returns(value) == [threw |-> FALSE, value |-> value]

Raises == [threw |-> TRUE, value |-> Null]

\* a lookup method without its catch block
TryCatch_rethrow(body, fallback) == body

\* try { body } catch { return fallback }, as every lookup method has it
TryCatch(body, fallback) == IF body.threw THEN Returns(fallback) ELSE body

\* lookupMaritalStatus: the matched code, or code 1 flagged as default
lookupMaritalStatus(q) ==
  LET results == executeQuery(q)
  IN TryCatch(
       IF results.threw THEN Raises
       ELSE IF Len(results.rows) > 0
       THEN Returns([statusSerial |-> results.rows[1], isDefault |-> FALSE])
       ELSE Returns([statusSerial |-> 1, isDefault |-> TRUE]),
       [statusSerial |-> 1, isDefault |-> TRUE])

\* lookupSession that falls back to a default session
lookupSession_default(q) == Returns(IF q = "rows" THEN MatchedId ELSE 1)

\* lookupSession: sessionID or null
lookupSession(q) ==
  LET results == executeQuery(q)
  IN TryCatch(
       IF results.threw THEN Raises
       ELSE Returns(IF Len(results.rows) > 0 THEN results.rows[1] ELSE Null),
       Null)

\* lookupCourseOfStudy: serialid or null; null without a query when the
\* search term is blank
lookupCourseOfStudy(searchTerm, q) ==
  LET results == executeQuery(q)
  IN TryCatch(
       IF searchTerm = "" THEN Returns(Null)
       ELSE IF results.threw THEN Raises
       ELSE Returns(IF Len(results.rows) > 0 THEN results.rows[1] ELSE Null),
       Null)

\* lookupState: state_id or null; null without a query for a blank name
lookupState(stateName, q) ==
  LET results == executeQuery(q)
  IN TryCatch(
       IF stateName = "" THEN Returns(Null)
       ELSE IF results.threw THEN Raises
       ELSE Returns(IF Len(results.rows) > 0 THEN results.rows[1] ELSE Null),
       Null)

\* lookupLga: the query with the state when there is one, then the query by
\* name only; an exception in either gives null without fallback
lookupLga(lgaName, stateId, qWithState, qNameOnly) ==
  LET withState == executeQuery(qWithState)
      nameOnly == executeQuery(qNameOnly)
      none == [lgaId |-> Null, usedFallback |-> FALSE]
  IN TryCatch(
       IF lgaName = "" THEN Returns(none)
       ELSE IF stateId # Null /\ withState.threw THEN Raises
       ELSE IF stateId # Null /\ Len(withState.rows) > 0
       THEN Returns([lgaId |-> withState.rows[1], usedFallback |-> FALSE])
       ELSE IF nameOnly.threw THEN Raises
       ELSE IF Len(nameOnly.rows) > 0
       THEN Returns([lgaId |-> nameOnly.rows[1], usedFallback |-> TRUE])
       ELSE Returns(none),
       none)

\* an attempt that asks the student table only
isUnique_studentOnly(qStudent, qMapping) == qStudent = "empty"

\* generateApplicantNo, one attempt: the candidate is returned when both
\* uniqueness queries find nothing; the second query runs only then
isUnique(qStudent, qMapping) == qStudent = "empty" /\ qMapping = "empty"

\* processRecord between two awaits
NoLookup ==
  [at |-> "none", attempt |-> 0, generated |-> FALSE, queries |-> <<>>,
   last |-> <<>>]

\* ------------------------------------------------------- progress stream
\* the stream before the GET: nothing enqueued, no timer.  'absent' counts
\* the polls in a row that missed the job, 'found' tells whether a poll ever
\* saw it, 'polls' flips at every poll.
NoObserver ==
  [connected |-> FALSE, interval |-> FALSE, closed |-> FALSE,
   aborted |-> FALSE, retryCount |-> 0, last |-> "none", threw |-> "none",
   absent |-> 0, found |-> FALSE, polls |-> FALSE]

\* controller.enqueue: a TypeError on a closed stream
enqueue(o, type) ==
  IF o.closed THEN [o EXCEPT !.threw = "enqueue"] ELSE [o EXCEPT !.last = type]

\* controller.close: a TypeError on a closed stream
close(o) ==
  IF o.closed THEN [o EXCEPT !.threw = "close"] ELSE [o EXCEPT !.closed = TRUE]

clearInterval(o) == [o EXCEPT !.interval = FALSE]

\* JobManager.getJob as the timer callback uses it
getJob(w) ==
  [present |-> JobId \in DOMAIN w.jobs,
   isComplete |-> JobId \in DOMAIN w.jobs /\ w.jobs[JobId].progress.isComplete]

\* a timer callback that keeps its count when it finds the job
poll_noReset(o, job) ==
  IF ~job.present
  THEN LET o1 == [o EXCEPT !.retryCount = @ + 1]
       IN IF o1.retryCount >= maxPollRetries
          THEN clearInterval(close(enqueue(o1, "error")))
          ELSE enqueue(o1, "waiting")
  ELSE LET o1 == enqueue(o, "progress")
       IN IF job.isComplete
          THEN clearInterval(close(enqueue(o1, "complete")))
          ELSE o1

\* the setInterval callback of the progress route
poll(o, job) ==
  IF ~job.present
  THEN LET o1 == [o EXCEPT !.retryCount = @ + 1]
       IN IF o1.retryCount >= maxPollRetries
          THEN clearInterval(close(enqueue(o1, "error")))
          ELSE enqueue(o1, "waiting")
  ELSE LET o1 == enqueue([o EXCEPT !.retryCount = 0], "progress")
       IN IF job.isComplete
          THEN clearInterval(close(enqueue(o1, "complete")))
          ELSE o1

\* ---------------------------------------------------------- Record Upserter
Blank(v) == v = ""

\* the statement of upsertRecord whose execute() throws, if any: the
\* existence check, the statement on dlc_student, the one on dlc_student_id
Faults == {"none", "check", "student", "studentId"}

\* upsertRecord that writes the row's values over whatever is stored
upsertRecord_overwrite(st, row, fault) ==
  IF fault # "none" THEN [store |-> st, wrote |-> FALSE, threw |-> TRUE]
  ELSE [store |-> [st EXCEPT ![Trim(row.matric).id] =
                     [present |-> TRUE, mapped |-> TRUE,
                      emailAddress |-> row.email,
                      studyMode |-> "FULL_PROGRAMME",
                      password |-> Hash(row.lastName),
                      stud_email |-> row.email]],
        wrote |-> TRUE, threw |-> FALSE]

\* upsertRecord, the callback run on the transaction's connection: the store
\* as the connection sees it when the callback returns or throws, whether a
\* database operation occurred, and whether it threw
upsertRecord(st, row, fault) ==
  LET key == Trim(row.matric).id
      existing == st[key]
  IN IF fault = "check"
     THEN [store |-> st, wrote |-> FALSE, threw |-> TRUE]
     ELSE IF existing.present /\ existing.mapped
     THEN LET needsPasswordUpdate == Blank(existing.password)
              needsEmailUpdate == Blank(existing.emailAddress)
              needsStudEmailUpdate == Blank(existing.stud_email)
              needsStudyModeUpdate == Blank(existing.studyMode)
              st1 == [st EXCEPT ![key] =
                        [@ EXCEPT
                           !.emailAddress = IF Blank(@) THEN row.email ELSE @,
                           !.studyMode = IF Blank(@) THEN "FULL_PROGRAMME" ELSE @,
                           !.password = IF Blank(@)
                                        THEN Hash(ToLower(row.lastName)) ELSE @]]
              second == needsStudEmailUpdate /\ ~Blank(row.email)
              st2 == IF second
                     THEN [st1 EXCEPT ![key].stud_email =
                              IF Blank(@) THEN row.email ELSE @]
                     ELSE st1
          IN IF ~needsPasswordUpdate /\ ~needsEmailUpdate
                /\ ~needsStudEmailUpdate /\ ~needsStudyModeUpdate
             THEN [store |-> st, wrote |-> FALSE, threw |-> FALSE]
             ELSE IF fault = "student"
             THEN [store |-> st, wrote |-> FALSE, threw |-> TRUE]
             ELSE IF fault = "studentId" /\ second
             THEN [store |-> st1, wrote |-> FALSE, threw |-> TRUE]
             ELSE [store |-> st2, wrote |-> TRUE, threw |-> FALSE]
     ELSE LET st1 == [st EXCEPT ![key] =
                        [present |-> TRUE, mapped |-> FALSE,
                         emailAddress |-> row.email,
                         studyMode |-> "FULL_PROGRAMME",
                         password |-> Hash(row.lastName), stud_email |-> ""]]
              st2 == [st1 EXCEPT ![key].mapped = TRUE,
                                 ![key].stud_email = row.email]
          IN IF fault = "student"
             THEN [store |-> st, wrote |-> FALSE, threw |-> TRUE]
             ELSE IF fault = "studentId"
             THEN [store |-> st1, wrote |-> FALSE, threw |-> TRUE]
             ELSE [store |-> st2, wrote |-> TRUE, threw |-> FALSE]

\* executeTransaction that releases the connection without rolling back
executeTransaction_noRollback(st, body) == body

\* executeTransaction whose rollback also discards what earlier transactions
\* committed
executeTransaction_rollbackAll(st, body) ==
  IF body.threw THEN [store |-> EmptyStore, wrote |-> FALSE, threw |-> TRUE]
  ELSE body

\* executeTransaction: commit what the callback did, or roll back to the
\* store as it was at beginTransaction and rethrow
executeTransaction(st, body) ==
  IF body.threw THEN [store |-> st, wrote |-> FALSE, threw |-> TRUE]
  ELSE body

\* ------------------------------------------------- Streaming Batch Processor
\* the upload route's catch handler on the processFile promise
routeCatch(w) ==
  IF JobId \in DOMAIN w.jobs
  THEN [w EXCEPT !.jobs[JobId].progress.isComplete = TRUE,
                 !.jobs[JobId].progress.message = "failed"]
  ELSE w

\* reject(...) of the processFile promise; a settled promise stays as it is
reject(w) ==
  IF w.promise = "pending" THEN routeCatch([w EXCEPT !.promise = "rejected"])
  ELSE w

\* resolve() of the processFile promise
resolve(w) ==
  IF w.promise = "pending" THEN [w EXCEPT !.promise = "resolved"] ELSE w

\* finalize that leaves the percentage where the last row put it
finalize_noClamp(w) ==
  LET w1 == IF w.progress.totalRecords = 0
            THEN [w EXCEPT !.progress.totalRecords = w.parse.rowNumber - 1]
            ELSE w
      w2 == [w1 EXCEPT !.progress.isComplete = TRUE,
                       !.progress.message =
                          IF w.isCancelled THEN "cancelled" ELSE "complete",
                       !.pc = "done"]
  IN resolve(emitProgress(w2))

\* finalize that returns early, settling nothing, when the job was cancelled
finalize_skipWhenCancelled(w) ==
  IF w.isCancelled THEN [w EXCEPT !.pc = "done"]
  ELSE LET w1 == IF w.progress.totalRecords = 0
                 THEN [w EXCEPT !.progress.totalRecords = w.parse.rowNumber - 1]
                 ELSE w
           w2 == [w1 EXCEPT !.progress.isComplete = TRUE,
                            !.progress.progress = Pct(100, 1),
                            !.progress.message = "complete",
                            !.pc = "done"]
       IN resolve(emitProgress(w2))

\* processFile, complete callback: back-fill of the total and finalisation
finalize(w) ==
  LET w1 == IF w.progress.totalRecords = 0
            THEN [w EXCEPT !.progress.totalRecords = w.parse.rowNumber - 1]
            ELSE w
      w2 == [w1 EXCEPT !.progress.isComplete = TRUE,
                       !.progress.progress = Pct(100, 1),
                       !.progress.message =
                          IF w.isCancelled THEN "cancelled" ELSE "complete",
                       !.pc = "done"]
  IN resolve(emitProgress(w2))

\* processBatchStart that restarts the processed counter for each batch
processBatchStart_resetCounter(w, cb) ==
  LET w1 == emitProgress(SetMessage(
               [w EXCEPT !.progress.processedRecords = 0], "batch"))
  IN [w1 EXCEPT !.rowLoop = [batch |-> cb, pos |-> 1, seen |-> {}],
                !.inBatch = [k \in DOMAIN @ |->
                               IF \E n \in DOMAIN cb : cb[n].rowNumber = k
                               THEN w.loop.batchNumber ELSE @[k]],
                !.pc = "batchDelay"]

\* processBatch up to its one-second delay
processBatchStart(w, cb) ==
  LET w1 == emitProgress(SetMessage(w, "batch"))
  IN [w1 EXCEPT !.rowLoop = [batch |-> cb, pos |-> 1, seen |-> {}],
                !.inBatch = [k \in DOMAIN @ |->
                               IF \E n \in DOMAIN cb : cb[n].rowNumber = k
                               THEN w.loop.batchNumber ELSE @[k]],
                !.pc = "batchDelay"]

\* a batch loop that processes full batches only
RECURSIVE batchLoop_dropPartial(_)
batchLoop_dropPartial(w) ==
  IF w.loop.i > Len(w.batch) THEN finalize(w)
  ELSE LET cb == Append(w.loop.currentBatch, w.batch[w.loop.i])
           w1 == [w EXCEPT !.loop.currentBatch = cb]
       IN IF Len(cb) >= options.batchSize /\ ~w.isCancelled
          THEN processBatchStart(w1, cb)
          ELSE batchLoop_dropPartial([w1 EXCEPT !.loop.i = @ + 1])

\* processFile, complete callback: the batch loop from index w.loop.i on,
\* up to the next processBatch call or to the end of processFile
RECURSIVE batchLoop(_)
batchLoop(w) ==
  IF w.loop.i > Len(w.batch) THEN finalize(w)
  ELSE LET cb == Append(w.loop.currentBatch, w.batch[w.loop.i])
           w1 == [w EXCEPT !.loop.currentBatch = cb]
       IN IF (Len(cb) >= options.batchSize \/ w.loop.i = Len(w.batch))
             /\ Len(cb) > 0 /\ ~w.isCancelled
          THEN processBatchStart(w1, cb)
          ELSE batchLoop([w1 EXCEPT !.loop.i = @ + 1])

\* processBatch returned: clear the batch and go on with the loop
afterBatch(w) ==
  batchLoop([w EXCEPT !.loop = [i |-> @.i + 1, currentBatch |-> <<>>,
                                batchNumber |-> @.batchNumber + 1]])

\* processBatch after its row loop
endBatch(w) == afterBatch(emitProgress(w))

\* error handling that writes the header line with every failed record
handleProcessingError_headerEachTime(w, r, reason) ==
  LET rowNo == IF r.rowNumber # 0 THEN r.rowNumber ELSE w.progress.currentRow
      line == [row |-> r.row, failure_reason |-> reason, row_number |-> rowNo]
  IN [w EXCEPT
        !.errors = Append(@, [rowNumber |-> rowNo, reason |-> reason]),
        !.progress.failedRecordsCount = @ + 1,
        !.failedCsv = @ \o <<"header", line>>]

\* handleProcessingError and writeFailedRecord
handleProcessingError(w, r, reason) ==
  LET rowNo == IF r.rowNumber # 0 THEN r.rowNumber ELSE w.progress.currentRow
      line == [row |-> r.row, failure_reason |-> reason, row_number |-> rowNo]
  IN [w EXCEPT
        !.errors = Append(@, [rowNumber |-> rowNo, reason |-> reason]),
        !.progress.failedRecordsCount = @ + 1,
        !.failedCsv = IF @ = <<>> THEN <<"header", line>> ELSE Append(@, line)]

\* processBatch: the progress update that ends a row, up to the 100 ms delay
updateProgress(w) ==
  LET w1 == [w EXCEPT !.progress.currentRow = w.progress.processedRecords]
      w2 == IF w1.progress.totalRecords > 0
            THEN [w1 EXCEPT !.progress.progress =
                    Pct(w1.progress.processedRecords * 100,
                        w1.progress.totalRecords)]
            ELSE w1
  IN [w2 EXCEPT !.pc = "rowDelay", !.inflight = 0]

\* a row's exception that escapes processBatch and rejects processFile
rowFailed_abort(w, r, reason) ==
  reject([w EXCEPT !.outcome[r.rowNumber] = "failed", !.inflight = 0,
                   !.pc = "done"])

\* a catch block that records the failure without counting the row as
\* processed
rowFailed_notProcessed(w, r, reason) ==
  LET w1 == handleProcessingError(w, r, reason)
  IN updateProgress([w1 EXCEPT !.outcome[r.rowNumber] = "failed"])

\* processBatch: the catch block of a row
rowFailed(w, r, reason) ==
  LET w1 == handleProcessingError(w, r, reason)
  IN updateProgress([w1 EXCEPT !.progress.processedRecords = @ + 1,
                               !.outcome[r.rowNumber] = "failed"])

\* the row loop without its cancellation checkpoint
RECURSIVE rowLoopFrom_noCheckpoint(_)
rowLoopFrom_noCheckpoint(w) ==
  IF w.rowLoop.pos > Len(w.rowLoop.batch) THEN endBatch(w)
  ELSE LET r == w.rowLoop.batch[w.rowLoop.pos]
           matricNumber == Trim(r.row.matric)
       IN IF matricNumber \in w.rowLoop.seen
          THEN rowLoopFrom_noCheckpoint(
                 [w EXCEPT !.progress.processedRecords = @ + 1,
                           !.outcome[r.rowNumber] = "dup",
                           !.rowLoop.pos = @ + 1])
          ELSE LET w1 == [w EXCEPT !.rowLoop.seen = @ \cup {matricNumber}]
               IN IF Validate(r.row) = "ok"
                  THEN [w1 EXCEPT !.pc = "transforming",
                                  !.inflight = r.rowNumber]
                  ELSE rowFailed(w1, r, Validate(r.row))

\* the row loop that never records the identifiers it has seen
rowLoopFrom_noSeen(w) ==
  IF w.isCancelled \/ w.rowLoop.pos > Len(w.rowLoop.batch) THEN endBatch(w)
  ELSE LET r == w.rowLoop.batch[w.rowLoop.pos]
       IN IF Validate(r.row) = "ok"
          THEN [w EXCEPT !.pc = "transforming", !.inflight = r.rowNumber]
          ELSE rowFailed(w, r, Validate(r.row))

\* the row loop that hands a row to the Transformer without awaiting it and
\* goes on to the end of the batch
rowLoopFrom_noAwait(w) ==
  IF w.isCancelled \/ w.rowLoop.pos > Len(w.rowLoop.batch) THEN endBatch(w)
  ELSE LET r == w.rowLoop.batch[w.rowLoop.pos]
       IN IF Validate(r.row) = "ok"
          THEN endBatch([w EXCEPT !.inflight = r.rowNumber])
          ELSE rowFailed(w, r, Validate(r.row))

\* processBatch: the row loop from its top, up to the next await
RECURSIVE rowLoopFrom(_)
rowLoopFrom(w) ==
  IF w.isCancelled \/ w.rowLoop.pos > Len(w.rowLoop.batch) THEN endBatch(w)
  ELSE LET r == w.rowLoop.batch[w.rowLoop.pos]
           matricNumber == Trim(r.row.matric)
       IN IF matricNumber \in w.rowLoop.seen
          THEN rowLoopFrom([w EXCEPT !.progress.processedRecords = @ + 1,
                                     !.outcome[r.rowNumber] = "dup",
                                     !.rowLoop.pos = @ + 1])
          ELSE LET w1 == [w EXCEPT !.rowLoop.seen = @ \cup {matricNumber}]
               IN IF Validate(r.row) = "ok"
                  THEN [w1 EXCEPT !.pc = "transforming",
                                  !.inflight = r.rowNumber]
                  ELSE rowFailed(w1, r, Validate(r.row))

\* ----------------------------------------------------------------- actions
InitJob(files) ==
  /\ pc = "idle"
  /\ file \in files
  /\ store \in StoreInits
  /\ options = [dryRun |-> FALSE, batchSize |-> 1]
  /\ isCancelled = FALSE
  /\ progress = InitialProgress
  /\ parse = [rowNumber |-> 0, headerProcessed |-> FALSE, idx |-> 1]
  /\ batch = <<>>
  /\ loop = [i |-> 1, currentBatch |-> <<>>, batchNumber |-> 1]
  /\ rowLoop = [batch |-> <<>>, pos |-> 1, seen |-> {}]
  /\ errors = <<>>
  /\ failedCsv = <<>>
  /\ promise = "none"
  /\ jobs = NoJobs
  /\ timers = 0
  /\ emitted = <<>>
  /\ outcome = [k \in 1..Len(file.rows) |-> "none"]
  /\ inflight = 0
  /\ inBatch = [k \in 1..Len(file.rows) |-> 0]
  /\ cancelCalls = 0
  /\ cancelLog = [called |-> FALSE]
  /\ now = 0
  /\ dlc_student = {}
  /\ dlc_student_id = {}
  /\ conn = [c \in Connections |-> IdleConnection]
  /\ insertId = 0
  /\ begun = 0
  /\ lookup = NoLookup
  /\ observer = NoObserver

Init == InitJob(Files)

\* upload route POST up to its setTimeout: JobManager.createJob(options),
\* which runs the CsvProcessor constructor and registers the job
CreateJob(o) ==
  /\ pc = "idle"
  /\ options' = o
  /\ LET w1 == emitProgress([World EXCEPT !.progress = InitialProgress])
     IN Becomes([w1 EXCEPT
          !.jobs = [j \in {JobId} |->
                      [progress |-> w1.progress, createdAt |-> now,
                       completedAt |-> NotStamped]],
          !.pc = "created"])
  /\ UNCHANGED <<file, cancelCalls, cancelLog, database, lookup, observer>>

\* the route's timer fires: processFile up to the await of countTotalRecords
StartProcessFile ==
  /\ pc = "created"
  /\ Becomes(emitProgress(SetMessage(
        [World EXCEPT !.pc = "counting", !.promise = "pending"], "counting")))
  /\ UNCHANGED <<file, options, cancelCalls, cancelLog, database, lookup, observer>>

\* countTotalRecords settles (ok: complete callback; ~ok: stream error),
\* then processFile up to its one-second delay
CountDone(ok) ==
  /\ pc = "counting"
  /\ LET w1 == [World EXCEPT !.progress.totalRecords =
                   IF ok THEN Len(file.rows) ELSE 0]
     IN Becomes(emitProgress(SetMessage([w1 EXCEPT !.pc = "init"],
                                        "initializing")))
  /\ UNCHANGED <<file, options, cancelCalls, cancelLog, database, lookup, observer>>

\* the delay ends: the second parse pass is set up
InitDelayDone ==
  /\ pc = "init"
  /\ Becomes([World EXCEPT
        !.pc = "parsing",
        !.parse = [rowNumber |-> 0, headerProcessed |-> FALSE, idx |-> 1],
        !.batch = <<>>])
  /\ UNCHANGED <<file, options, cancelCalls, cancelLog, database, lookup, observer>>

\* header validation of the step callback: the required fields not found
missingFields(headers) ==
  { field \in RequiredFields :
      ~ \E header \in headers : ToLower(header) = ToLower(field) }

\* the step callback of the second pass, for the next data row of the file
stepCallback(w, data) ==
  IF w.isCancelled THEN w
  ELSE LET w1 == [w EXCEPT !.parse.rowNumber = @ + 1]
       IN IF ~w1.parse.headerProcessed
          THEN IF missingFields(file.headers) # {}
               THEN reject(w1)
               ELSE emitProgress(SetMessage(
                      [w1 EXCEPT !.parse.headerProcessed = TRUE], "processing"))
          ELSE [w1 EXCEPT !.batch =
                  Append(@, [row |-> data, rowNumber |-> w1.parse.rowNumber])]

Step ==
  /\ pc = "parsing"
  /\ parse.idx <= Len(file.rows)
  /\ Becomes(stepCallback([World EXCEPT !.parse.idx = @ + 1],
                          file.rows[parse.idx]))
  /\ UNCHANGED <<file, options, cancelCalls, cancelLog, database, lookup, observer>>

\* the error callback of the second pass
ParseError ==
  /\ pc = "parsing"
  /\ Becomes(reject([World EXCEPT !.pc = "done"]))
  /\ UNCHANGED <<file, options, cancelCalls, cancelLog, database, lookup, observer>>

\* the complete callback of the second pass, up to its first await
ParseComplete ==
  /\ pc = "parsing"
  /\ parse.idx > Len(file.rows)
  /\ Becomes(batchLoop([World EXCEPT
        !.loop = [i |-> 1, currentBatch |-> <<>>, batchNumber |-> 1]]))
  /\ UNCHANGED <<file, options, cancelCalls, cancelLog, database, lookup, observer>>

\* the delay at the head of processBatch ends
BatchDelayDone ==
  /\ pc = "batchDelay"
  /\ Becomes(rowLoopFrom(World))
  /\ UNCHANGED <<file, options, cancelCalls, cancelLog, database, lookup, observer>>

CurrentRow == rowLoop.batch[rowLoop.pos]

\* counter update that counts every upserted row as inserted
rowDone_alwaysInserted(w, r, kind, wasUpdated) ==
  updateProgress([w EXCEPT
     !.progress.insertedRecords = @ + 1,
     !.progress.processedRecords = @ + 1,
     !.outcome[r.rowNumber] = kind])

\* processBatch: a row was transformed (and, unless dryRun, upserted)
rowDone(w, r, kind, wasUpdated) ==
  updateProgress([w EXCEPT
     !.progress.insertedRecords = IF wasUpdated THEN @ + 1 ELSE @,
     !.progress.processedRecords = @ + 1,
     !.outcome[r.rowNumber] = kind])

\* TransformDone that hands the record to the Upserter in dry-run mode too
TransformDone_dryWrites(ok) ==
  /\ pc = "transforming"
  /\ Becomes(IF ~ok THEN rowFailed(World, CurrentRow, "lookup failed")
             ELSE [World EXCEPT !.pc = "upserting"])
  /\ UNCHANGED <<file, options, cancelCalls, cancelLog, database, lookup, observer>>

\* the lookups, generateApplicantNo and bcrypt.hash of processRecord settle
\* (ok: a record; ~ok: a mandatory lookup found nothing or the generator
\* gave up)
TransformDone(ok) ==
  /\ pc = "transforming"
  /\ Becomes(IF ~ok THEN rowFailed(World, CurrentRow, "lookup failed")
             ELSE IF options.dryRun
                  THEN rowDone(World, CurrentRow, "dry", TRUE)
                  ELSE [World EXCEPT !.pc = "upserting"])
  /\ UNCHANGED <<file, options, cancelCalls, cancelLog, database, lookup, observer>>

\* executeTransaction settles: committed, or rolled back and thrown
UpsertDone(fault) ==
  /\ pc = "upserting"
  /\ LET res == executeTransaction(store,
                   upsertRecord(store, CurrentRow.row, fault))
         w == [World EXCEPT !.store = res.store]
     IN Becomes(IF res.threw THEN rowFailed(w, CurrentRow, "transaction failed")
                ELSE rowDone(w, CurrentRow,
                             IF res.wrote THEN "written" ELSE "noop",
                             res.wrote))
  /\ UNCHANGED <<file, options, cancelCalls, cancelLog, database, lookup, observer>>

\* the 100 ms delay after a row ends: next iteration of the row loop
RowDelayDone ==
  /\ pc = "rowDelay"
  /\ Becomes(rowLoopFrom([World EXCEPT !.rowLoop.pos = @ + 1]))
  /\ UNCHANGED <<file, options, cancelCalls, cancelLog, database, lookup, observer>>

\* cancel that raises the flag without telling anyone
cancel_silent(w) == [w EXCEPT !.isCancelled = TRUE]

\* CsvProcessor.cancel
cancel(w) ==
  emitProgress(SetMessage([w EXCEPT !.isCancelled = TRUE], "cancelling"))

\* cancelJob that does not look at the completion flag
cancelJob_noGuard(w, jobId) ==
  IF jobId \in DOMAIN w.jobs
  THEN [world |-> cancel(w), ret |-> TRUE]
  ELSE [world |-> w, ret |-> FALSE]

\* cancelJob that answers true without signalling the Processor
cancelJob_noSignal(w, jobId) ==
  IF jobId \in DOMAIN w.jobs /\ ~w.jobs[jobId].progress.isComplete
  THEN [world |-> w, ret |-> TRUE]
  ELSE [world |-> w, ret |-> FALSE]

\* JobManager.cancelJob: the new state and the value returned
cancelJob(w, jobId) ==
  IF jobId \in DOMAIN w.jobs /\ ~w.jobs[jobId].progress.isComplete
  THEN [world |-> cancel(w), ret |-> TRUE]
  ELSE [world |-> w, ret |-> FALSE]

\* cancel route POST
CancelRoute(jobId) ==
  /\ cancelCalls < MaxCancels
  /\ LET res == cancelJob(World, jobId)
     IN /\ Becomes(res.world)
        /\ cancelCalls' = IF res.ret THEN cancelCalls + 1 ELSE cancelCalls
        /\ cancelLog' = IF res.ret /\ ~cancelLog.called
                        THEN [called |-> TRUE, inflight |-> inflight,
                              outcome |-> outcome, store |-> store,
                              inBatch |-> inBatch, at |-> pc]
                        ELSE cancelLog
  /\ UNCHANGED <<file, options, database, lookup, observer>>

\* JobManager.cleanupJob
cleanupJob(w, jobId) ==
  IF jobId \in DOMAIN w.jobs /\ w.jobs[jobId].completedAt # NotStamped
  THEN [w EXCEPT !.failedCsv = <<>>, !.jobs = NoJobs]
  ELSE w

\* when the deferred cleanup scheduled by onProgress is due
TimerDue(w) ==
  IF JobId \in DOMAIN w.jobs /\ w.jobs[JobId].completedAt # NotStamped
  THEN w.jobs[JobId].completedAt + JOB_CLEANUP_INTERVAL
  ELSE w.now

\* the deferred cleanup scheduled by onProgress fires, JOB_CLEANUP_INTERVAL
\* after the completion stamp or later
CleanupTimer ==
  /\ timers > 0
  /\ Becomes(cleanupJob(
        [World EXCEPT !.timers = @ - 1,
                      !.now = IF @ < TimerDue(World) THEN TimerDue(World) ELSE @],
        JobId))
  /\ UNCHANGED <<file, options, cancelCalls, cancelLog, database, lookup, observer>>

\* a pass that purges a completed job whatever its age
sweep_noRetentionCheck(w) ==
  IF JobId \notin DOMAIN w.jobs THEN w
  ELSE LET job == w.jobs[JobId]
       IN IF job.completedAt # NotStamped
          THEN cleanupJob(w, JobId)
          ELSE IF w.now - job.createdAt > StaleCeiling
               THEN cleanupJob(w, JobId) ELSE w

\* one pass of the cleanup scheduler over the job table
sweep(w) ==
  IF JobId \notin DOMAIN w.jobs THEN w
  ELSE LET job == w.jobs[JobId]
       IN IF job.completedAt # NotStamped
          THEN IF w.now - job.completedAt > JOB_CLEANUP_INTERVAL
               THEN cleanupJob(w, JobId) ELSE w
          ELSE IF w.now - job.createdAt > StaleCeiling
               THEN cleanupJob(w, JobId) ELSE w

\* SweepInterval passes and the cleanup scheduler runs its next pass (the
\* clock is followed while the job is in the table: MaxRunHours without a
\* completion stamp, and until the pass after the retention window with one)
SweepPass ==
  /\ JobId \in DOMAIN jobs
  /\ IF jobs[JobId].completedAt # NotStamped
     THEN now - jobs[JobId].completedAt <= JOB_CLEANUP_INTERVAL
     ELSE now - jobs[JobId].createdAt < MaxRunHours
  /\ Becomes(sweep([World EXCEPT !.now = @ + SweepInterval]))
  /\ UNCHANGED <<file, options, cancelCalls, cancelLog, database, lookup, observer>>

\* every step of a job but the Transformer's
OtherSteps ==
  \/ \E o \in Options : CreateJob(o)
  \/ StartProcessFile
  \/ \E ok \in BOOLEAN : CountDone(ok)
  \/ InitDelayDone
  \/ Step
  \/ ParseError
  \/ ParseComplete
  \/ BatchDelayDone
  \/ \E fault \in Faults : UpsertDone(fault)
  \/ RowDelayDone
  \/ \E jobId \in {JobId, UnknownId} : CancelRoute(jobId)
  \/ CleanupTimer

Next ==
  \/ OtherSteps
  \/ \E ok \in BOOLEAN : TransformDone(ok)

\* The clock stands still in Spec, where only the order of the callbacks
\* matters (a deferred cleanup may fire at any point after it was scheduled).
Spec == Init /\ [][Next]_vars

\* the files of the timed runs: no data row, and a row followed by a valid
\* row and a bad row
TimedFiles ==
  [headers : HeaderChoices, rows : {<<>>, <<FirstRow, OtherRow, BadRow>>}]

InitTimed == Init /\ file \in TimedFiles /\ store = EmptyStore

TimedNext == Next \/ SweepPass

\* Spec with the clock: hours pass and the cleanup scheduler runs
TimedSpec == InitTimed /\ [][TimedNext]_vars

\* files long enough for a full batch followed by a partial one: the row
\* taken for the header line, then three or four accumulated rows
PartitionRows == <<FirstRow, OtherRow, DupRow, OtherRow, FirstRow>>

PartitionFiles ==
  [headers : {h \in HeaderChoices : missingFields(h) = {}},
   rows : {SubSeq(PartitionRows, 1, n) : n \in {4, 5}}]

InitPartition == InitJob(PartitionFiles) /\ store = EmptyStore

PartitionSpec == InitPartition /\ [][Next]_vars

\* files with blank required cells, under the header line spelled as the
\* code spells it and under the one with 'DOB'
FieldFiles ==
  [headers : {RequiredFields, HeaderDOB},
   rows : { <<FirstRow, OtherRow>>,
            <<FirstRow, BlankIdRow, BlankIdRow>>,
            <<FirstRow, OtherRow, BlankNameRow>>,
            <<FirstRow, BlankNameRow, OtherRow>> }]

InitFields == InitJob(FieldFiles) /\ store = EmptyStore

FieldSpec == InitFields /\ [][Next]_vars

\* ------------------------------------ the Transformer, await by await
\* processRecord throws: the catch block of processBatch
Throws(reason) ==
  /\ Becomes(rowFailed(World, CurrentRow, reason))
  /\ lookup' = NoLookup

\* what a lookup was asked and what it answered
Answer(method, q, result) ==
  <<[method |-> method, q |-> q, result |-> result]>>

\* lookupMaritalStatus settles; processRecord goes on whatever it returned
MaritalStatusDone(q) ==
  /\ pc = "transforming" /\ lookup.at = "none"
  /\ LET res == lookupMaritalStatus(q)
     IN IF res.threw THEN Throws("Query execution failed")
        ELSE /\ lookup' = [lookup EXCEPT
                             !.at = "session",
                             !.last = Answer("marital", q, res)]
             /\ UNCHANGED processorVars
  /\ UNCHANGED <<file, options, cancelCalls, cancelLog, database, observer>>

\* lookupSession settles: 'Session not found' when it returned null
SessionDone(q) ==
  /\ pc = "transforming" /\ lookup.at = "session"
  /\ LET res == lookupSession(q)
     IN IF res.threw THEN Throws("Query execution failed")
        ELSE IF res.value = Null THEN Throws("Session not found")
        ELSE /\ lookup' = [lookup EXCEPT
                             !.at = "course",
                             !.last = Answer("session", q, res)]
             /\ UNCHANGED processorVars
  /\ UNCHANGED <<file, options, cancelCalls, cancelLog, database, observer>>

\* lookupCourseOfStudy settles: 'Course of study not found' on null.  The
\* department of a row that got here is not blank.
CourseOfStudyDone(q) ==
  /\ pc = "transforming" /\ lookup.at = "course"
  /\ LET res == lookupCourseOfStudy("x", q)
     IN IF res.threw THEN Throws("Query execution failed")
        ELSE IF res.value = Null THEN Throws("Course of study not found")
        ELSE /\ lookup' = [lookup EXCEPT
                             !.at = "state",
                             !.last = Answer("course", q, res)]
             /\ UNCHANGED processorVars
  /\ UNCHANGED <<file, options, cancelCalls, cancelLog, database, observer>>

\* lookupState and lookupLga settle; processRecord goes on whatever they
\* returned
StateLgaDone(stateName, lgaName, qState, qWithState, qNameOnly) ==
  /\ pc = "transforming" /\ lookup.at = "state"
  /\ LET state == lookupState(stateName, qState)
         lga == lookupLga(lgaName, state.value, qWithState, qNameOnly)
     IN IF state.threw \/ lga.threw THEN Throws("Query execution failed")
        ELSE /\ lookup' = [lookup EXCEPT
                             !.at = "generate",
                             !.last = Answer("lga", qNameOnly, lga)]
             /\ UNCHANGED processorVars
  /\ UNCHANGED <<file, options, cancelCalls, cancelLog, database, observer>>

\* generateApplicantNo, one pass of its loop: return the candidate, go round
\* again, or throw when that was the last attempt
GenerateAttempt(qStudent, qMapping) ==
  /\ pc = "transforming" /\ lookup.at = "generate"
  /\ lookup.attempt < maxRetries
  /\ IF isUnique(qStudent, qMapping)
     THEN /\ lookup' = [lookup EXCEPT !.at = "hash", !.generated = TRUE,
                                      !.attempt = @ + 1,
                                      !.queries = <<qStudent, qMapping>>]
          /\ UNCHANGED processorVars
     ELSE IF lookup.attempt + 1 < maxRetries
     THEN /\ lookup' = [lookup EXCEPT !.attempt = @ + 1,
                                      !.queries = <<qStudent, qMapping>>]
          /\ UNCHANGED processorVars
     ELSE Throws("Failed to generate unique applicant number")
  /\ UNCHANGED <<file, options, cancelCalls, cancelLog, database, observer>>

\* bcrypt.hash settles and processRecord returns the record
HashDone ==
  /\ pc = "transforming" /\ lookup.at = "hash"
  /\ Becomes(IF options.dryRun THEN rowDone(World, CurrentRow, "dry", TRUE)
             ELSE [World EXCEPT !.pc = "upserting"])
  /\ lookup' = NoLookup
  /\ UNCHANGED <<file, options, cancelCalls, cancelLog, database, observer>>

LookupNext ==
  \/ OtherSteps
  \/ \E q \in QueryOutcomes : MaritalStatusDone(q)
  \/ \E q \in QueryOutcomes : SessionDone(q)
  \/ \E q \in QueryOutcomes : CourseOfStudyDone(q)
  \/ \E stateName, lgaName \in Names, q1, q2, q3 \in QueryOutcomes :
        StateLgaDone(stateName, lgaName, q1, q2, q3)
  \/ \E q1, q2 \in QueryOutcomes : GenerateAttempt(q1, q2)
  \/ HashDone

\* a valid row followed by a valid row of another identifier, and three
\* rows of which two share a batch
LookupFiles ==
  [headers : {RequiredFields},
   rows : { <<FirstRow, OtherRow>>, <<FirstRow, OtherRow, DupRow>> }]

InitLookup == InitJob(LookupFiles) /\ store = EmptyStore

LookupSpec == InitLookup /\ [][LookupNext]_vars

\* ------------------------------------ the progress stream of a client
\* progress route GET, start(controller): the 'connected' event and the timer
Connect ==
  /\ ~observer.connected
  /\ observer' = [enqueue(observer, "connected") EXCEPT
                    !.connected = TRUE, !.interval = TRUE]
  /\ UNCHANGED <<processorVars, file, options, cancelCalls, cancelLog,
                 database, lookup>>

\* the timer fires
Poll ==
  /\ observer.interval
  /\ LET job == getJob(World)
     IN observer' = [poll(observer, job) EXCEPT
                       !.absent = IF job.present THEN 0 ELSE @ + 1,
                       !.found = @ \/ job.present,
                       !.polls = ~@]
  /\ UNCHANGED <<processorVars, file, options, cancelCalls, cancelLog,
                 database, lookup>>

\* the client goes away: the abort listener of request.signal
Abort ==
  /\ observer.connected /\ ~observer.aborted
  /\ observer' = [close(clearInterval(observer)) EXCEPT !.aborted = TRUE]
  /\ UNCHANGED <<processorVars, file, options, cancelCalls, cancelLog,
                 database, lookup>>

ObserverNext == Next \/ Connect \/ Poll \/ Abort

\* one file, a valid row after the row taken for the header line
ObserverFiles == [headers : {RequiredFields}, rows : {<<FirstRow, OtherRow>>}]

InitObserver == InitJob(ObserverFiles) /\ store = EmptyStore

\* the job with a client on its progress stream
ObserverSpec == InitObserver /\ [][ObserverNext]_vars

\* ------------------------------------- concurrent upserts, by statement
\* the check query of upsertRecord: a non-locking read of the committed rows,
\* dlc_student LEFT JOIN dlc_student_id, by applicantNo or matric_no
checkQuery(record) ==
  { s \in dlc_student :
      /\ s.tx = 0
      /\ \/ s.applicantNo = record.applicantNo
         \/ \E si \in dlc_student_id :
               /\ si.tx = 0
               /\ si.applicant_serial = s.serialID
               /\ si.matric_no = record.matric_no }

\* a schema whose dlc_student_id.matric_no carries no unique index
UNIQUE_matric_no_absent(matric_no) == {}

\* dlc_student_id.matric_no UNIQUE: the index entries an insert runs into
UNIQUE_matric_no(matric_no) ==
  { si \in dlc_student_id : si.matric_no = matric_no }

\* dlc_student.applicantNo UNIQUE: the index entries an insert runs into
UNIQUE_applicantNo(applicantNo) ==
  { s \in dlc_student : s.applicantNo = applicantNo }

\* connection.rollback() and release, as executeTransaction's catch does it
rollback(c, error) ==
  /\ dlc_student' = { s \in dlc_student : s.tx # c }
  /\ dlc_student_id' = { si \in dlc_student_id : si.tx # c }
  /\ conn' = [conn EXCEPT ![c].at = "idle", ![c].error = error]

\* executeTransaction: getConnection and beginTransaction for one record
beginTransaction(c, record) ==
  /\ conn[c].at = "idle"
  /\ begun < MaxTransactions
  /\ begun' = begun + 1
  /\ conn' = [conn EXCEPT ![c] =
                [at |-> "check", record |-> record, serialID |-> 0,
                 error |-> ""]]
  /\ UNCHANGED <<dlc_student, dlc_student_id, insertId, jobVars>>

\* upsertRecord: the existence check and the branch on its first row
Check(c) ==
  /\ conn[c].at = "check"
  /\ conn' = [conn EXCEPT ![c].at =
                IF checkQuery(conn[c].record) # {} THEN "update"
                ELSE "insertStudent"]
  /\ UNCHANGED <<dlc_student, dlc_student_id, insertId, begun, jobVars>>

\* upsertRecord, merge path: the UPDATE statements (or none); no row is added
Update(c) ==
  /\ conn[c].at = "update"
  /\ conn' = [conn EXCEPT ![c].at = "commit"]
  /\ UNCHANGED <<dlc_student, dlc_student_id, insertId, begun, jobVars>>

\* upsertRecord, insert path: INSERT INTO dlc_student. The statement waits
\* while another transaction holds the same key uncommitted and fails with
\* a duplicate-key error when the key is committed.
InsertStudent(c) ==
  /\ conn[c].at = "insertStudent"
  /\ LET held == UNIQUE_applicantNo(conn[c].record.applicantNo)
     IN /\ \A s \in held : s.tx = 0
        /\ IF held # {}
           THEN rollback(c, "ER_DUP_ENTRY") /\ UNCHANGED insertId
           ELSE /\ insertId' = insertId + 1
                /\ dlc_student' = dlc_student \cup
                      {[serialID |-> insertId + 1,
                        applicantNo |-> conn[c].record.applicantNo,
                        tx |-> c]}
                /\ conn' = [conn EXCEPT ![c].at = "insertStudentId",
                                        ![c].serialID = insertId + 1]
                /\ UNCHANGED dlc_student_id
  /\ UNCHANGED <<begun, jobVars>>

\* upsertRecord, insert path: INSERT INTO dlc_student_id with the insertId
\* of the student row
InsertStudentId(c) ==
  /\ conn[c].at = "insertStudentId"
  /\ LET held == UNIQUE_matric_no(conn[c].record.matric_no)
     IN /\ \A si \in held : si.tx = 0
        /\ IF held # {}
           THEN rollback(c, "ER_DUP_ENTRY")
           ELSE /\ dlc_student_id' = dlc_student_id \cup
                      {[matric_no |-> conn[c].record.matric_no,
                        applicant_serial |-> conn[c].serialID,
                        tx |-> c]}
                /\ conn' = [conn EXCEPT ![c].at = "commit"]
                /\ UNCHANGED dlc_student
  /\ UNCHANGED <<insertId, begun, jobVars>>

\* executeTransaction: connection.commit() and release
Commit(c) ==
  /\ conn[c].at = "commit"
  /\ dlc_student' =
        { IF s.tx = c THEN [s EXCEPT !.tx = 0] ELSE s : s \in dlc_student }
  /\ dlc_student_id' =
        { IF si.tx = c THEN [si EXCEPT !.tx = 0] ELSE si :
            si \in dlc_student_id }
  /\ conn' = [conn EXCEPT ![c].at = "idle"]
  /\ UNCHANGED <<insertId, begun, jobVars>>

\* a statement or the commit throws (connection lost, lock wait timeout):
\* executeTransaction rolls back and rethrows
StatementFails(c) ==
  /\ conn[c].at # "idle"
  /\ rollback(c, "ER_OTHER")
  /\ UNCHANGED <<insertId, begun, jobVars>>

RaceNext ==
  \/ \E c \in Connections, record \in Records : beginTransaction(c, record)
  \/ \E c \in Connections : Check(c)
  \/ \E c \in Connections : Update(c)
  \/ \E c \in Connections : InsertStudent(c)
  \/ \E c \in Connections : InsertStudentId(c)
  \/ \E c \in Connections : Commit(c)
  \/ \E c \in Connections : StatementFails(c)

\* the jobs stand still; only their upsert transactions run
InitRace ==
  /\ Init
  /\ file = [headers |-> CHOOSE h \in HeaderChoices : TRUE, rows |-> <<>>]
  /\ store = EmptyStore

RaceSpec == InitRace /\ [][RaceNext]_vars

\* ------------------------------------------------------------------ claims
Rows == DOMAIN outcome

MatricOf(k) == Trim(file.rows[k].matric)

SameBatch(a, b) == inBatch[a] # 0 /\ inBatch[a] = inBatch[b]

\* an earlier row of the same batch carries the same trimmed identifier
EarlierInBatch(k) ==
  \E a \in Rows : a < k /\ SameBatch(a, k) /\ MatricOf(a) = MatricOf(k)

\* the job ran to its normal end: no cancellation, promise resolved
NormalEnd == pc = "done" /\ promise = "resolved" /\ ~isCancelled

\* the row is valid: neither the Transformer nor the Upserter throws for it
ValidRow(k) == Validate(file.rows[k]) = "ok" /\ outcome[k] # "failed"

\* C1 as stated: in a non-dry-run job that ran to its normal end, every
\* other valid row of a batch that holds a failed row is written.
C1_EveryOtherValidRowWritten ==
  (NormalEnd /\ ~options.dryRun) =>
     \A b, r \in Rows :
        (b # r /\ SameBatch(b, r) /\ outcome[b] = "failed" /\ ValidRow(r))
           => outcome[r] = "written"

\* C1 amended: a failed row never rejects processFile, and in a non-dry-run
\* job that ran to its normal end every other valid row of the failed row's
\* batch whose identifier was not seen earlier in that batch has been passed
\* to the Upserter (written, or left alone by a no-op merge).
C1_ErrorIsolation ==
  /\ (\E b \in Rows : outcome[b] = "failed") => promise # "rejected"
  /\ (NormalEnd /\ ~options.dryRun) =>
        \A b, r \in Rows :
           (b # r /\ SameBatch(b, r) /\ outcome[b] = "failed" /\ ValidRow(r)
              /\ ~EarlierInBatch(r))
             => outcome[r] \in {"written", "noop"}

\* a batch with a failed row followed by a valid row that was written
C1_Witness ==
  /\ NormalEnd /\ ~options.dryRun
  /\ \E b, r \in Rows :
        /\ b < r /\ SameBatch(b, r)
        /\ outcome[b] = "failed" /\ outcome[r] = "written"

\* C2: once cancel() has been invoked, the only row still handled is the
\* one in flight at that moment (so at most one more row is written and no
\* row of a batch not yet started is touched), and what was written before
\* stays in the store.
C2_CancellationBoundary ==
  cancelLog.called =>
     /\ \A k \in Rows :
           outcome[k] # cancelLog.outcome[k] => k = cancelLog.inflight
     /\ \A k \in Rows : cancelLog.inBatch[k] = 0 => outcome[k] = "none"
     /\ inBatch = cancelLog.inBatch
     /\ Cardinality({k \in Rows : outcome[k] = "written"
                                   /\ cancelLog.outcome[k] # "written"}) <= 1
     /\ \A m \in MatricIds : cancelLog.store[m].present => store[m].present
     /\ \A k \in Rows :
           cancelLog.outcome[k] = "written" =>
              outcome[k] = "written" /\ store[MatricOf(k).id].present

\* cancelled while a row was in flight: that row is written, a later row of
\* the same batch is abandoned, and the job has ended
C2_Witness ==
  /\ cancelLog.called /\ pc = "done"
  /\ cancelLog.inflight # 0
  /\ outcome[cancelLog.inflight] = "written"
  /\ \E k \in Rows : SameBatch(k, cancelLog.inflight) /\ outcome[k] = "none"

\* C3: over the snapshots emitted for a job, processedRecords,
\* insertedRecords and failedRecordsCount never decrease.
C3_CountersMonotone ==
  \A j \in DOMAIN emitted :
     j > 1 =>
        /\ emitted[j - 1].processedRecords <= emitted[j].processedRecords
        /\ emitted[j - 1].insertedRecords <= emitted[j].insertedRecords
        /\ emitted[j - 1].failedRecordsCount <= emitted[j].failedRecordsCount

\* a snapshot emitted by cancel() after a row was processed, followed by a
\* final snapshot that counts one more row
C3_Witness ==
  \E i \in DOMAIN emitted :
     /\ emitted[i].message = "cancelling"
     /\ emitted[i].processedRecords >= 1
     /\ i < Len(emitted)
     /\ emitted[Len(emitted)].isComplete
     /\ emitted[Len(emitted)].processedRecords > emitted[i].processedRecords

Pct0 == Pct(0, 1)
Pct100 == Pct(100, 1)

\* C4: in every emitted snapshot the percentage is within [0,100], it never
\* decreases from one snapshot to the next, and it is 100 in every snapshot
\* with isComplete = true.
C4_ProgressPercent ==
  \A j \in DOMAIN emitted :
     /\ emitted[j].progress.den > 0
     /\ PctLeq(Pct0, emitted[j].progress)
     /\ PctLeq(emitted[j].progress, Pct100)
     /\ j > 1 => PctLeq(emitted[j - 1].progress, emitted[j].progress)
     /\ emitted[j].isComplete =>
           /\ PctLeq(Pct100, emitted[j].progress)
           /\ PctLeq(emitted[j].progress, Pct100)

\* a snapshot strictly between 0 and 100 followed by the final one
C4_Witness ==
  /\ emitted # <<>>
  /\ emitted[Len(emitted)].isComplete
  /\ \E i \in DOMAIN emitted :
        /\ ~PctLeq(emitted[i].progress, Pct0)
        /\ ~PctLeq(Pct100, emitted[i].progress)

RegistryComplete == JobId \in DOMAIN jobs /\ jobs[JobId].progress.isComplete

\* C5: once the registry's Progress of the job has isComplete = true, every
\* later Progress the registry holds for it has isComplete = true.
C5_CompletionLatched ==
  [][(RegistryComplete /\ JobId \in DOMAIN jobs') =>
        jobs'[JobId].progress.isComplete]_vars

\* the registry was marked complete by the failure handling of the route and
\* the Processor pushed a further update afterwards
C5_Witness ==
  /\ RegistryComplete
  /\ promise = "rejected"
  /\ pc = "done"
  /\ emitted[Len(emitted)].isComplete

\* C6 as stated: in a non-dry-run job that ran to its normal end, two rows of
\* one batch that share a trimmed identifier produce exactly one write; the
\* later row is skipped and both are counted as processed.
C6_ExactlyOneWrite ==
  (NormalEnd /\ ~options.dryRun) =>
     \A a, b \in Rows :
        (a < b /\ SameBatch(a, b) /\ MatricOf(a) = MatricOf(b)) =>
           /\ Cardinality({k \in {a, b} : outcome[k] = "written"}) = 1
           /\ outcome[b] = "dup"
           /\ outcome[a] # "none"

Count(kind) == Cardinality({k \in Rows : outcome[k] = kind})

\* C6 amended: at most one write occurs for two rows of one batch that share
\* a trimmed identifier, and only for the earlier one: the later row is never
\* transformed or written, and when the batch has been worked through it is
\* counted as processed, not inserted and not failed.
C6_DuplicateSuppression ==
  /\ \A a, b \in Rows :
        (a < b /\ SameBatch(a, b) /\ MatricOf(a) = MatricOf(b)) =>
           /\ outcome[b] \in {"none", "dup"}
           /\ (pc = "done" /\ ~isCancelled) =>
                 (outcome[b] = "dup" /\ outcome[a] # "none")
  /\ pc \in {"rowDelay", "done"} =>
        /\ progress.processedRecords = Cardinality(Rows) - Count("none")
        /\ progress.failedRecordsCount = Count("failed")
        /\ progress.insertedRecords = Count("written") + Count("dry")

\* a batch worked through with two rows whose identifiers differ only by
\* blanks: the first written, the second skipped, both counted
C6_Witness ==
  /\ NormalEnd /\ ~options.dryRun
  /\ \E a, b \in Rows :
        /\ a < b /\ SameBatch(a, b)
        /\ file.rows[a].matric # file.rows[b].matric
        /\ MatricOf(a) = MatricOf(b)
        /\ outcome[a] = "written" /\ outcome[b] = "dup"
        /\ progress.processedRecords = 2 /\ progress.insertedRecords = 1

\* C7 as stated: a job on a file with valid headers that runs to its normal
\* end has processed every data row of the file.
C7_EveryRowProcessed ==
  (NormalEnd /\ missingFields(file.headers) = {}) =>
     /\ progress.processedRecords = Len(file.rows)
     /\ \A k \in Rows : outcome[k] # "none"

\* C8 as stated: a job on a file that lacks a required header, once over and
\* not cancelled, has rejected and has processed no row.
C8_MissingHeaderRejected ==
  (pc = "done" /\ ~isCancelled /\ missingFields(file.headers) # {}) =>
     /\ promise = "rejected"
     /\ progress.processedRecords = 0
     /\ \A k \in Rows : outcome[k] = "none"
     /\ store \in StoreInits

\* timers fire, the parser delivers its rows and the store answers
ProcessorStep ==
  \/ StartProcessFile
  \/ \E ok \in BOOLEAN : CountDone(ok)
  \/ InitDelayDone
  \/ Step
  \/ ParseComplete
  \/ BatchDelayDone
  \/ \E ok \in BOOLEAN : TransformDone(ok)
  \/ \E fault \in Faults : UpsertDone(fault)
  \/ RowDelayDone

\* the files of the liveness check: no data row, one data row, and the
\* three-row example (a row, a row with the same identifier, a bad row)
LiveFiles ==
  [headers : HeaderChoices,
   rows : {<<>>, <<FirstRow>>, <<FirstRow, DupRow, BadRow>>}]

InitLive == Init /\ file \in LiveFiles /\ store = EmptyStore

FairSpec == InitLive /\ [][Next]_vars /\ WF_vars(ProcessorStep)

FinalSnapshotEmitted == emitted # <<>> /\ emitted[Len(emitted)].isComplete

\* C9: a job whose processFile has been started eventually emits a final
\* snapshot with isComplete = true or has its processFile rejected.
C9_ReachesTerminalState ==
  (promise = "pending") ~> (promise = "rejected" \/ FinalSnapshotEmitted)

\* a cancelled job that went through counting, parsing and a batch and emitted
\* its final snapshot
C9_Witness ==
  /\ promise = "resolved" /\ FinalSnapshotEmitted
  /\ isCancelled /\ progress.processedRecords >= 1

\* C10: cancelJob(id) returns true exactly when the job is in the table with
\* isComplete = false, and then the Processor's flag is set; otherwise it
\* returns false and changes nothing.
C10_CancelJob ==
  \A id \in {JobId, UnknownId} :
     LET res == cancelJob(World, id)
         live == id \in DOMAIN jobs /\ ~jobs[id].progress.isComplete
     IN /\ res.ret = live
        /\ res.ret => res.world.isCancelled
        /\ ~res.ret => res.world = World

\* a job that accepted a cancellation, completed, and would now refuse one
C10_Witness ==
  /\ cancelCalls >= 1 /\ isCancelled
  /\ RegistryComplete
  /\ ~cancelJob(World, JobId).ret

\* the stored record has all four mergeable fields non-blank
FullyPopulated(rec) ==
  /\ rec.present /\ rec.mapped
  /\ ~Blank(rec.emailAddress) /\ ~Blank(rec.studyMode)
  /\ ~Blank(rec.password) /\ ~Blank(rec.stud_email)

KeyOf(r) == Trim(r.row.matric).id

\* C11: when the Upserter answers for a row whose stored record has all four
\* mergeable fields non-blank, the store is left as it is, the row is counted
\* as processed and insertedRecords stays; and in a non-dry-run job
\* insertedRecords only ever grows by one, for a row the Upserter reported a
\* write for.
C11_IdempotentReingestion ==
  [][/\ (/\ pc = "upserting" /\ pc' # "upserting"
         /\ FullyPopulated(store[KeyOf(CurrentRow)])
         /\ outcome'[CurrentRow.rowNumber] # "failed")
        => /\ store' = store
           /\ outcome'[CurrentRow.rowNumber] = "noop"
           /\ progress'.insertedRecords = progress.insertedRecords
           /\ progress'.processedRecords = progress.processedRecords + 1
     /\ (~options.dryRun /\ progress'.insertedRecords # progress.insertedRecords)
        => /\ pc = "upserting"
           /\ progress'.insertedRecords = progress.insertedRecords + 1
           /\ outcome'[CurrentRow.rowNumber] = "written"
           /\ upsertRecord(store, CurrentRow.row, "none").wrote]_vars

\* a job that ended after a no-op merge: a row processed, none inserted, and
\* the fully populated record as it was
C11_Witness ==
  /\ NormalEnd /\ ~options.dryRun
  /\ \E k \in Rows : outcome[k] = "noop"
  /\ progress.processedRecords >= 1 /\ progress.insertedRecords = 0
  /\ store["A1"] = FullA1

MergeableFields == {"emailAddress", "studyMode", "password", "stud_email"}

\* C12: a non-blank value stored in a mergeable field of an existing record
\* is never changed by any step, whatever the rows re-ingested carry.
C12_MergeOnlyBlank ==
  [][\A m \in MatricIds :
        store[m].present =>
           /\ store'[m].present
           /\ \A f \in MergeableFields :
                 ~Blank(store[m][f]) => store'[m][f] = store[m][f]]_vars

\* a record inserted from a row without email, then merged with a row of the
\* same identifier carrying another surname and an email: the email was
\* filled in, the credential hash is still the one of the first row
C12_Witness ==
  /\ \E k \in Rows :
        /\ outcome[k] = "written"
        /\ file.rows[k].lastName = "Doe"
        /\ MatricOf(k).id = "A1"
  /\ store["A1"].present
  /\ store["A1"].password = Hash("Dup")
  /\ store["A1"].emailAddress = "doe@x.org"
  /\ store["A1"].stud_email = "doe@x.org"

\* C13: in every committed state of the store a student row has its
\* identifier-mapping row and a mapping row has its student row; a
\* transaction that fails at the mapping insert leaves neither.
C13_PrimaryMappingAtomic ==
  \A m \in MatricIds : store[m].present <=> store[m].mapped

\* a valid row whose transaction failed and left nothing under its
\* identifier, next to a row that was inserted with both entities
C13_Witness ==
  /\ \E k \in Rows :
        /\ outcome[k] = "failed" /\ Validate(file.rows[k]) = "ok"
        /\ \E e \in DOMAIN errors :
              errors[e] = [rowNumber |-> k, reason |-> "transaction failed"]
        /\ ~store[MatricOf(k).id].present /\ ~store[MatricOf(k).id].mapped
  /\ \E j \in Rows :
        /\ outcome[j] = "written"
        /\ store[MatricOf(j).id].present /\ store[MatricOf(j).id].mapped

\* C14: in a dry-run job the store stays one of the stores the job can start
\* from (every write leaves that set: it adds a student or changes one), no
\* row reaches the Upserter, and insertedRecords counts exactly the rows that
\* were transformed successfully.
C14_DryRunWritesNothing ==
  (options.dryRun /\ pc # "idle") =>
     /\ store \in StoreInits
     /\ pc # "upserting"
     /\ \A k \in Rows : outcome[k] \in {"none", "dup", "failed", "dry"}
     /\ pc \in {"rowDelay", "done"} =>
           progress.insertedRecords = Count("dry")

\* a dry run that ended with a row counted as inserted and an empty store
C14_Witness ==
  /\ options.dryRun /\ NormalEnd
  /\ Count("dry") >= 1
  /\ progress.insertedRecords = Count("dry")
  /\ store = EmptyStore

\* C15 as stated: cleanupJob(id) for a job in the table removes the job and
\* its failure artifact; for an unknown id, or called a second time, it
\* changes nothing.
C15_CleanupRemovesJob ==
  \A id \in {JobId, UnknownId} :
     LET w == cleanupJob(World, id)
     IN /\ id \in DOMAIN jobs =>
              (id \notin DOMAIN w.jobs /\ w.failedCsv = <<>>)
        /\ id \notin DOMAIN jobs => w = World
        /\ cleanupJob(w, id) = w

Stamped == JobId \in DOMAIN jobs /\ jobs[JobId].completedAt # NotStamped

Unstamped == JobId \in DOMAIN jobs /\ jobs[JobId].completedAt = NotStamped

\* C16 as stated: a job without completion stamp is not in the table after
\* a sweep pass that found it older than the staleness ceiling (the clock
\* advances by sweep passes only, so a job that old has been through one).
C16_StaleJobPurged ==
  Unstamped => now - jobs[JobId].createdAt <= StaleCeiling

ArtifactMatchesErrors ==
  /\ (failedCsv # <<>>) <=> (progress.failedRecordsCount >= 1)
  /\ (failedCsv # <<>>) <=> (\E k \in Rows : outcome[k] = "failed")
  /\ failedCsv # <<>> =>
        /\ Len(failedCsv) = 1 + progress.failedRecordsCount
        /\ Len(failedCsv) = 1 + Len(errors)
        /\ Len(failedCsv) = 1 + Count("failed")
        /\ failedCsv[1] = "header"
        /\ \A i \in 2..Len(failedCsv) :
              /\ failedCsv[i].row_number = errors[i - 1].rowNumber
              /\ failedCsv[i].failure_reason = errors[i - 1].reason
              /\ outcome[failedCsv[i].row_number] = "failed"
              /\ failedCsv[i].row = file.rows[failedCsv[i].row_number]
              /\ i > 2 => failedCsv[i - 1].row_number < failedCsv[i].row_number

IsPrefix(s, t) == Len(s) <= Len(t) /\ SubSeq(t, 1, Len(s)) = s

\* C18: while the job is in the table (before cleanup) its artifact exists
\* exactly when a row has failed and holds one header line followed by one
\* line per failed row in failure order, as many as failedRecordsCount and
\* getErrors(); the lines written are never changed or removed.
C18_FailedRecordArtifact ==
  /\ [](JobId \in DOMAIN jobs => ArtifactMatchesErrors)
  /\ [][(JobId \in DOMAIN jobs') => IsPrefix(failedCsv, failedCsv')]_vars

\* a job in the table with two failed rows: a header line and two data lines
C18_Witness ==
  /\ JobId \in DOMAIN jobs /\ pc = "done"
  /\ progress.failedRecordsCount = 2
  /\ Len(failedCsv) = 3

\* C19 as stated: the Progress held in the job's entry changes only in a step
\* in which the Processor emits a snapshot, and then to the snapshot emitted
\* last.
C19_SingleWriter ==
  [][(/\ JobId \in DOMAIN jobs /\ JobId \in DOMAIN jobs'
      /\ jobs'[JobId].progress # jobs[JobId].progress)
        => /\ Len(emitted') > Len(emitted)
           /\ jobs'[JobId].progress = emitted'[Len(emitted')]]_vars

\* processFile has rejected in the step callback, for a missing header
HeaderRejected ==
  /\ promise = "rejected"
  /\ missingFields(file.headers) # {}
  /\ parse.rowNumber >= 1

\* C20 as stated: once processFile has rejected for a missing header, no
\* snapshot with isComplete = true and the 'Processing complete' summary is
\* emitted, and the registry never shows the job as completed that way.
C20_RejectedNeverCompleted ==
  HeaderRejected =>
     /\ \A j \in DOMAIN emitted :
           ~(emitted[j].isComplete /\ emitted[j].message = "complete")
     /\ JobId \in DOMAIN jobs =>
           ~(jobs[JobId].progress.isComplete
               /\ jobs[JobId].progress.message = "complete")

\* C21: every handled row is counted once in processedRecords and falls in
\* one class (written or notionally inserted, no-op merge, duplicate skip,
\* failure), and insertedRecords + failedRecordsCount <= processedRecords in
\* every snapshot emitted.
C21_RowAccounting ==
  /\ \A j \in DOMAIN emitted :
        /\ emitted[j].insertedRecords + emitted[j].failedRecordsCount
              <= emitted[j].processedRecords
        /\ emitted[j].processedRecords <= Cardinality(Rows) - Count("none")
  /\ progress.insertedRecords + progress.failedRecordsCount
        <= progress.processedRecords
  /\ pc \in {"batchDelay", "transforming", "upserting", "rowDelay", "done"} =>
        /\ progress.processedRecords =
              Count("written") + Count("dry") + Count("noop")
                + Count("dup") + Count("failed")
        /\ progress.insertedRecords = Count("written") + Count("dry")
        /\ progress.failedRecordsCount = Count("failed")

\* a final snapshot that counts a written row and a failed row
C21_Witness ==
  /\ emitted # <<>>
  /\ emitted[Len(emitted)].isComplete
  /\ emitted[Len(emitted)].processedRecords = 2
  /\ emitted[Len(emitted)].insertedRecords = 1
  /\ emitted[Len(emitted)].failedRecordsCount = 1

Counters(p) ==
  <<p.processedRecords, p.insertedRecords, p.failedRecordsCount>>

\* cancel() changes no counter and appends one 'cancelling' snapshot
CancelEmitsAtOnce ==
  LET w == cancel(World)
  IN /\ w.isCancelled
     /\ Counters(w.progress) = Counters(progress)
     /\ w.progress.totalRecords = progress.totalRecords
     /\ Len(w.emitted) = Len(emitted) + 1
     /\ w.emitted[Len(w.emitted)].message = "cancelling"
     /\ Counters(w.emitted[Len(w.emitted)]) = Counters(progress)

\* the last snapshot is final, says 'Processing cancelled' and carries the
\* counters of the rows handled before processing stopped
CancelledFinal ==
  /\ FinalSnapshotEmitted
  /\ emitted[Len(emitted)].message = "cancelled"
  /\ Counters(emitted[Len(emitted)]) =
        << Cardinality(Rows) - Count("none"),
           Count("written") + Count("dry"),
           Count("failed") >>

\* C22 as stated: once cancel() has been invoked the job eventually emits
\* the final 'Processing cancelled' snapshot.
C22_CancelAlwaysFinal == isCancelled ~> CancelledFinal

\* C22: cancel() changes no counter and emits a 'cancelling' status at once,
\* and a cancelled job eventually emits a final snapshot with isComplete =
\* true and message 'Processing cancelled' whose counters are those of the
\* rows handled so far, unless the parse stream fails first and processFile
\* rejects.
C22_CancelReachesTerminal ==
  /\ []CancelEmitsAtOnce
  /\ isCancelled ~> (promise = "rejected" \/ CancelledFinal)

\* a job cancelled before processFile started, again at its final snapshot
C22_Witness ==
  /\ cancelLog.called /\ cancelLog.at = "created"
  /\ CancelledFinal /\ promise = "resolved"

TransactionFailed(k) ==
  /\ outcome[k] = "failed"
  /\ \E e \in DOMAIN errors :
        errors[e] = [rowNumber |-> k, reason |-> "transaction failed"]

\* C23: one transaction per row: whenever the transaction of the current row
\* fails, the store is put back exactly as it was when that transaction
\* began, so the records written by earlier rows (of the same batch too) are
\* still there; and a row counted as written has its record in the store
\* whatever happens to later rows.
C23_RecordScopedTransactions ==
  /\ pc = "upserting" =>
        \A fault \in Faults :
           LET res == executeTransaction(store,
                         upsertRecord(store, CurrentRow.row, fault))
           IN res.threw =>
                /\ res.store = store
                /\ \A a \in Rows :
                      outcome[a] = "written" =>
                         /\ res.store[MatricOf(a).id].present
                         /\ res.store[MatricOf(a).id].mapped
  /\ \A a \in Rows :
        outcome[a] = "written" =>
           /\ store[MatricOf(a).id].present
           /\ store[MatricOf(a).id].mapped

\* a batch of two rows: the first was written, the transaction of the
\* second failed, and the record of the first is in the store
C23_Witness ==
  \E a, k \in Rows :
     /\ a < k /\ SameBatch(a, k)
     /\ outcome[a] = "written" /\ TransactionFailed(k)
     /\ store[MatricOf(a).id].present /\ store[MatricOf(a).id].mapped
     /\ ~store[MatricOf(k).id].present

Committed(rows) == { r \in rows : r.tx = 0 }

\* the committed primary entities reachable from identifier m
PrimaryOf(m) ==
  { s \in Committed(dlc_student) :
      \E si \in Committed(dlc_student_id) :
         si.matric_no = m /\ si.applicant_serial = s.serialID }

Updates ==
  { [progress EXCEPT !.isComplete = b] : b \in BOOLEAN }

\* what one update does to the stamp and to the deferred cleanups
StampedOnce ==
  /\ timers <= 1
  /\ Stamped => timers = 1
  /\ Stamped =>
        \A snap \in Updates :
           LET w == onProgress(World, snap)
           IN /\ w.jobs[JobId].completedAt = jobs[JobId].completedAt
              /\ w.timers = timers
  /\ Unstamped =>
        /\ timers = 0
        /\ \A snap \in Updates :
              LET w == onProgress(World, snap)
              IN IF snap.isComplete
                 THEN w.jobs[JobId].completedAt = now /\ w.timers = 1
                 ELSE w.jobs[JobId].completedAt = NotStamped /\ w.timers = 0

\* C25: completedAt is set once, by the first update with isComplete = true
\* that reaches the registry, to the time of that update, and one deferred
\* cleanup is scheduled then; afterwards no update changes completedAt or
\* schedules another cleanup.
C25_StampedOnce ==
  /\ []StampedOnce
  /\ [][/\ (Stamped /\ JobId \in DOMAIN jobs')
           => (jobs'[JobId].completedAt = jobs[JobId].completedAt)
        /\ (Unstamped /\ Stamped')
           => (/\ jobs'[JobId].completedAt = now'
               /\ timers' = timers + 1
               /\ Len(emitted') > Len(emitted)
               /\ emitted'[Len(emitted')].isComplete
               /\ \A j \in DOMAIN emitted : ~emitted[j].isComplete)
        /\ (timers' > timers) => (Unstamped /\ Stamped')]_vars

\* a job stamped in its second hour, an hour later: one cleanup pending
C25_Witness ==
  /\ Stamped /\ jobs[JobId].completedAt = 1 /\ now = 2
  /\ timers = 1
  /\ FinalSnapshotEmitted

\* C26 as stated: a job whose registry Progress has isComplete = true has
\* completedAt set, so that cleanupJob purges it.
C26_CompleteImpliesStamped ==
  RegistryComplete =>
     /\ Stamped
     /\ JobId \notin DOMAIN cleanupJob(World, JobId).jobs

StatusAt(j, msg) == j \in DOMAIN emitted /\ emitted[j].message = msg

\* C27 as stated: a run on a file with valid headers that ended normally
\* emitted a 'Counting', then an 'Initializing', then a 'Processing' status,
\* all before the first batch status; exactly one snapshot has isComplete =
\* true and it is the last one.
C27_StatusOrdering ==
  (NormalEnd /\ missingFields(file.headers) = {}) =>
     /\ \E a, b, c \in DOMAIN emitted :
           /\ a < b /\ b < c
           /\ StatusAt(a, "counting")
           /\ StatusAt(b, "initializing")
           /\ StatusAt(c, "processing")
           /\ \A j \in DOMAIN emitted : StatusAt(j, "batch") => c < j
     /\ Cardinality({ j \in DOMAIN emitted : emitted[j].isComplete }) = 1
     /\ emitted[Len(emitted)].isComplete

InBatchPhase == pc \in {"batchDelay", "transforming", "upserting", "rowDelay"}

\* position in the current batch of row k, 0 if it is not in it
PosInBatch(k) ==
  IF \E n \in DOMAIN rowLoop.batch : rowLoop.batch[n].rowNumber = k
  THEN CHOOSE n \in DOMAIN rowLoop.batch : rowLoop.batch[n].rowNumber = k
  ELSE 0

\* C28: a row is inside the Transformer or the Upserter only while its batch
\* is the one being processed, and it is then the only one; while a batch is
\* being processed every row of an earlier batch has finished, the rows of
\* the batch before the current position have finished and those after it
\* have not been touched, and no row of a later batch has been touched.
C28_SequentialProcessing ==
  /\ inflight # 0 <=> pc \in {"transforming", "upserting"}
  /\ inflight # 0 =>
        /\ inflight = CurrentRow.rowNumber
        /\ outcome[inflight] = "none"
        /\ inBatch[inflight] = loop.batchNumber
  /\ \A k \in Rows : inBatch[k] = 0 => outcome[k] = "none"
  /\ InBatchPhase =>
        \A k \in Rows :
           /\ inBatch[k] <= loop.batchNumber
           /\ (inBatch[k] # 0 /\ inBatch[k] < loop.batchNumber)
                 => outcome[k] # "none"
           /\ inBatch[k] = loop.batchNumber
                 => /\ PosInBatch(k) # 0
                    /\ PosInBatch(k) < rowLoop.pos => outcome[k] # "none"
                    /\ PosInBatch(k) > rowLoop.pos => outcome[k] = "none"
                    /\ (PosInBatch(k) = rowLoop.pos /\ pc # "rowDelay")
                          => outcome[k] = "none"

\* the second batch has a row inside the Transformer; the row of the first
\* batch has finished
C28_Witness ==
  /\ pc = "transforming" /\ loop.batchNumber = 2
  /\ inflight # 0 /\ inBatch[inflight] = 2
  /\ \E k \in Rows : inBatch[k] = 1 /\ outcome[k] \in {"written", "failed"}

Min(a, b) == IF a < b THEN a ELSE b

\* the batch number n of the accumulated rows, for the batchSize of the job
BatchOf(n) == ((n - 1) \div options.batchSize) + 1

\* C29: while a batch is processed it is the next run of batchSize
\* accumulated rows in file order, or the non-empty rest; and when a job
\* ends without cancellation every accumulated row has been processed, in
\* the batch its position assigns it, the final partial batch included.
C29_BatchPartition ==
  /\ InBatchPhase =>
        /\ rowLoop.batch # <<>>
        /\ rowLoop.batch =
              SubSeq(batch, (loop.batchNumber - 1) * options.batchSize + 1,
                     Min(loop.batchNumber * options.batchSize, Len(batch)))
  /\ NormalEnd =>
        /\ \A n \in DOMAIN batch :
              /\ batch[n].rowNumber = n + 1
              /\ inBatch[batch[n].rowNumber] = BatchOf(n)
              /\ outcome[batch[n].rowNumber] # "none"
        /\ \A k \in Rows :
              inBatch[k] # 0 => \E n \in DOMAIN batch : batch[n].rowNumber = k

\* three accumulated rows and batchSize 2: a full batch, then the third row
\* alone in a second batch, processed
C29_Witness ==
  /\ NormalEnd /\ options.batchSize = 2 /\ Len(batch) = 3
  /\ inBatch[2] = 1 /\ inBatch[3] = 1 /\ inBatch[4] = 2
  /\ outcome[4] # "none"

\* the run went into its one-second delay with no total: the count failed
\* (or found no row)
StartedWithoutTotal ==
  \E j \in DOMAIN emitted :
     StatusAt(j, "initializing") /\ emitted[j].totalRecords = 0

\* C30 as stated: a run whose up-front count left totalRecords = 0 keeps the
\* percentage at 0 in every snapshot before the final one, and at its normal
\* end the final snapshot has totalRecords = processedRecords and the
\* percentage 100.
C30_CountFailureBackfill ==
  (NormalEnd /\ StartedWithoutTotal) =>
     /\ \A j \in 1..(Len(emitted) - 1) : emitted[j].progress = Pct0
     /\ emitted[Len(emitted)].isComplete
     /\ emitted[Len(emitted)].progress = Pct100
     /\ emitted[Len(emitted)].totalRecords
           = emitted[Len(emitted)].processedRecords

\* C31 as stated: totalRecords is never negative, in the Processor's
\* Progress and in every snapshot emitted.
C31_TotalNeverNegative ==
  /\ progress.totalRecords >= 0
  /\ \A j \in DOMAIN emitted : emitted[j].totalRecords >= 0

\* a required cell of the row is blank after trimming, as processRecord
\* reads it
BlankRequired(row) ==
  row.matric.id = "" \/ row.lastName = "" \/ row.gender = ""
    \/ DoBCell(row) = ""

MissingFieldErrors ==
  { "Missing required field: Matric Number",
    "Missing required field: Last Name",
    "Missing required field: Gender",
    "Missing required field: DoB" }

\* C32 as stated: a row with a blank required field that the row loop has
\* handled is a failed row: an error naming a blank field is recorded for
\* it, it is in the failed-record file (as long as the job has not been
\* cleaned up) and it is counted in failedRecordsCount, whatever else its
\* batch holds.
C32_BlankFieldFails ==
  \A k \in Rows :
     (outcome[k] # "none" /\ BlankRequired(file.rows[k])) =>
        /\ outcome[k] = "failed"
        /\ \E e \in DOMAIN errors :
              /\ errors[e].rowNumber = k
              /\ errors[e].reason \in MissingFieldErrors
              /\ errors[e].reason = Validate(file.rows[k])
        /\ JobId \in DOMAIN jobs =>
              \E n \in 2..Len(failedCsv) : failedCsv[n].row_number = k
        /\ progress.failedRecordsCount >=
              Cardinality({ j \in Rows :
                 outcome[j] # "none" /\ BlankRequired(file.rows[j]) })

\* a mandatory lookup returns null when its query matches nothing or fails
MandatoryLookupsNull ==
  \A q \in {"empty", "error"} :
     /\ lookupSession(q) = Returns(Null)
     /\ lookupCourseOfStudy("x", q) = Returns(Null)

MandatoryLookupErrors == {"Session not found", "Course of study not found"}

\* C33: the session and course-of-study lookups return null on no match and
\* on a failing query, and the step in which processRecord throws for it
\* records the row as failed with that reason, appends it to the
\* failed-record file, leaves the store as it is, has asked for no applicant
\* number, and leaves the job running with the row loop at its next delay.
C33_MandatoryLookups ==
  /\ []MandatoryLookupsNull
  /\ [][(/\ pc = "transforming"
         /\ lookup.at \in {"session", "course"}
         /\ lookup'.at = "none")
        => (/\ outcome'[inflight] = "failed"
            /\ store' = store
            /\ errors' = Append(errors,
                  [rowNumber |-> inflight,
                   reason |-> IF lookup.at = "session"
                              THEN "Session not found"
                              ELSE "Course of study not found"])
            /\ Len(failedCsv') > Len(failedCsv)
            /\ failedCsv'[Len(failedCsv')].row_number = inflight
            /\ failedCsv'[Len(failedCsv')].failure_reason
                  \in MandatoryLookupErrors
            /\ progress'.failedRecordsCount = progress.failedRecordsCount + 1
            /\ progress'.processedRecords = progress.processedRecords + 1
            /\ progress'.insertedRecords = progress.insertedRecords
            /\ lookup.attempt = 0 /\ ~lookup.generated
            /\ pc' = "rowDelay" /\ promise' = promise)]_vars

\* the session lookup failed for a row, nothing is stored under its
\* identifier, and the row after it was written
C33_Witness ==
  \E k, j \in Rows :
     /\ k < j
     /\ \E e \in DOMAIN errors :
           errors[e] = [rowNumber |-> k, reason |-> "Session not found"]
     /\ ~store[MatricOf(k).id].present
     /\ outcome[j] = "written"

GeneratorError == "Failed to generate unique applicant number"

\* C34: generateApplicantNo never makes more than maxRetries attempts; it
\* has returned a candidate only from an attempt whose two uniqueness
\* queries both found nothing; an attempt that found the candidate or whose
\* query failed is counted and followed by another one, and the attempt
\* number maxRetries, when unsuccessful, throws: that step records the row
\* as failed, writes nothing to the store and leaves the row loop running.
C34_GeneratorBounded ==
  /\ [](/\ lookup.attempt <= maxRetries
        /\ lookup.at = "generate" => lookup.attempt < maxRetries
        /\ lookup.generated <=> lookup.at = "hash"
        /\ lookup.generated => lookup.queries = <<"empty", "empty">>
        /\ (lookup.at = "generate" /\ lookup.attempt > 0)
              => lookup.queries # <<"empty", "empty">>)
  /\ [][(pc = "transforming" /\ lookup.at = "generate" /\ lookup' # lookup)
        => (\/ /\ lookup'.at = "hash"
               /\ lookup'.attempt = lookup.attempt + 1
               /\ outcome' = outcome /\ errors' = errors
            \/ /\ lookup'.at = "generate"
               /\ lookup'.attempt = lookup.attempt + 1
               /\ lookup'.attempt < maxRetries
               /\ outcome' = outcome /\ errors' = errors
            \/ /\ lookup'.at = "none"
               /\ lookup.attempt = maxRetries - 1
               /\ outcome'[inflight] = "failed"
               /\ errors' = Append(errors,
                     [rowNumber |-> inflight, reason |-> GeneratorError])
               /\ failedCsv'[Len(failedCsv')].row_number = inflight
               /\ store' = store
               /\ pc' = "rowDelay" /\ promise' = promise)]_vars

\* the generator gave up on a row and the row after it was written
C34_Witness ==
  \E k, j \in Rows :
     /\ k < j
     /\ \E e \in DOMAIN errors :
           errors[e] = [rowNumber |-> k, reason |-> GeneratorError]
     /\ outcome[k] = "failed"
     /\ outcome[j] = "written"

\* whether each of the five lookup methods threw, for every name and every
\* query outcome
LookupThrew ==
  {lookupMaritalStatus(q).threw : q \in QueryOutcomes}
    \cup {lookupSession(q).threw : q \in QueryOutcomes}
    \cup {lookupCourseOfStudy(n, q).threw : n \in Names, q \in QueryOutcomes}
    \cup {lookupState(n, q).threw : n \in Names, q \in QueryOutcomes}
    \cup {lookupLga(n, id, q1, q2).threw :
             n \in Names, id \in {Null, MatchedId},
             q1 \in QueryOutcomes, q2 \in QueryOutcomes}

\* C35: every lookup method returns a result and never throws, whatever it
\* is asked and whatever the query does, a failing query included; marital
\* status answers the default code 1 with isDefault = true exactly when
\* nothing matched or the query failed, and the matched code with
\* isDefault = false otherwise; the answers processRecord received are of
\* that kind
C35_LookupTotality ==
  /\ LookupThrew = {FALSE}
  /\ \A q \in QueryOutcomes :
        lookupMaritalStatus(q).value =
          IF q \in {"empty", "error"}
          THEN [statusSerial |-> 1, isDefault |-> TRUE]
          ELSE [statusSerial |-> MatchedId, isDefault |-> FALSE]
  /\ \A i \in DOMAIN lookup.last :
        /\ ~lookup.last[i].result.threw
        /\ lookup.last[i].method = "marital" =>
              (lookup.last[i].result.value.isDefault
                 <=> lookup.last[i].q \in {"empty", "error"})
  /\ \A e \in DOMAIN errors : errors[e].reason # "Query execution failed"

\* the marital status query failed and processRecord went on to the session
\* with the default code
C35_Witness ==
  /\ pc = "transforming" /\ lookup.at = "session"
  /\ lookup.last =
       Answer("marital", "error",
              Returns([statusSerial |-> 1, isDefault |-> TRUE]))

\* the records whose credential a step stored: inserted, or given a
\* password they did not have
CredentialStored(m) ==
  /\ store'[m].present
  /\ \/ ~store[m].present
     \/ store'[m].password # store[m].password

\* C36: every credential the pipeline stores, on the insert path and on the
\* merge path alike, is the hash of the row's surname in lower case
C36_DefaultCredential ==
  [][\A m \in MatricIds :
        CredentialStored(m) =>
           store'[m].password = Hash(ToLower(CurrentRow.row.lastName))]_vars

\* C37: the progress stream emits an error event and closes exactly at the
\* poll that misses the job for the maxPollRetries-th time in a row; a poll
\* that finds the job resets the count; the stream emits 'complete' and
\* closes exactly at a poll that sees isComplete = true; once closed its
\* timer is cleared, so that nothing is enqueued on the closed stream
C37_ObserverRetryBound ==
  /\ [](/\ observer.closed => ~observer.interval
        /\ observer.threw # "enqueue"
        /\ observer.retryCount = observer.absent
        /\ observer.interval => observer.retryCount < maxPollRetries)
  /\ [][observer'.polls # observer.polls =>
          LET job == getJob(World)
          IN /\ observer.interval /\ ~observer.closed
             /\ (~job.present /\ observer.absent + 1 = maxPollRetries)
                  <=> (observer'.last = "error" /\ observer'.closed)
             /\ job.present => observer'.retryCount = 0
             /\ (job.present /\ job.isComplete)
                  <=> (observer'.last = "complete" /\ observer'.closed)
             /\ observer'.closed => ~observer'.interval]_vars

\* the stream saw the job, then missed it maxPollRetries times in a row after
\* its cleanup, and closed with the error event
C37_Witness ==
  /\ observer.found /\ observer.closed /\ ~observer.aborted
  /\ observer.last = "error"
  /\ observer.absent = maxPollRetries

\* the accumulated rows processBatch has not dealt with yet
HeldUnprocessed ==
  { i \in DOMAIN batch : outcome[batch[i].rowNumber] = "none" }

\* C38: while a file is processed the Processor never holds more parsed and
\* not yet processed rows than the configured batch size
C38_BoundedBuffering ==
  pc \notin {"idle", "created"} =>
     Cardinality(HeldUnprocessed) <= options.batchSize

====
